---- MODULE Spec2Model ----
(***************************************************************************)
(* focusflow-api: the Session stop state machine (planner/views.py) over   *)
(* the Topic / Task / Session records (planner/models.py), and the         *)
(* analytics built on them (planner/analytics.py).                         *)
(*                                                                         *)
(* Instants are whole seconds since an epoch, calendar dates are whole     *)
(* days since the same epoch.  NULL stands for a null column.              *)
(***************************************************************************)
EXTENDS Integers, Sequences, FiniteSets, TLC

\* ------------------------------------------------------------------ bounds
NumSessions == 1        \* rows the Session table may hold (API specification)
NumRequests == 2        \* HTTP requests that may be issued (one slot each)
MaxTick == 1            \* the API clock reports 0, ClockStep, .. MaxTick*ClockStep
ClockStep == 90         \* seconds between two reportable instants of the API clock
MaxSeconds == 125       \* the timer clock reports every second 0 .. MaxSeconds
NumRows == 3            \* Session rows of a store the analytics are applied to
MaxDay == 3             \* sessions start, and today falls, on the dates 0 .. MaxDay
MaxWindow == 2          \* window_days ranges over 1 .. MaxWindow
NumTasks == 2           \* Task rows of a store the ranking is applied to
MaxLimit == 2           \* limit ranges over 1 .. MaxLimit
MaxStruggle == 1        \* struggle_level of the first topic ranges over 0 .. MaxStruggle
MaxPriority == 3        \* priority of a scored task ranges over 0 .. MaxPriority
MaxDue == 3             \* due_date of a scored task falls up to MaxDue days after date 7
NumHistory == 2         \* sessions in the store that topics and tasks are deleted from
NumShared == 1          \* Task rows of the store that two owners share

NULL == -1
Users == {"A", "B"}

Instants == {i * ClockStep : i \in 0..MaxTick}
TimerInstants == 0..MaxSeconds

\* ------------------------------------------------------------------- state
VARIABLES
    topics,     \* Topic table:   id -> [user, struggle_level]
    tasks,      \* Task table:    id -> [user, topic_id, priority, due_date, status]
    sessions,   \* Session table: sequence of rows, the id is the index
    req,        \* the HTTP requests: slot -> request record (s is the instance
                \* the view holds between get_object() and its response)
    out         \* the last analytics result returned (NoOut before the first)

vars == <<topics, tasks, sessions, req, out>>

\* models.Session: topic, task, started_at, ended_at, minutes, notes (+ user)
Session(u, tp, tk, now) ==
    [user |-> u, topic |-> tp, task |-> tk, started_at |-> now,
     ended_at |-> NULL, minutes |-> 0, notes |-> 0]

NoSession == [user |-> "A", topic |-> NULL, task |-> NULL, started_at |-> 0,
              ended_at |-> NULL, minutes |-> 0, notes |-> 0]

IdleRequest == [pc |-> "idle", op |-> "none", user |-> "A", sid |-> 0,
                s |-> NoSession, now |-> NULL, status |-> 0, code |-> "none"]

Requests == 1..NumRequests

NoOut == [fn |-> "none", user |-> "A", today |-> 0, window_days |-> 0,
          total |-> 0, recent_activity |-> <<>>, streak |-> 0,
          limit |-> 0, scored |-> <<>>, ranked |-> <<>>, due_soon |-> <<>>]

\* The request slots are interchangeable: they are taken in order.
NextSlot(r) == req[r].pc = "idle" /\ \A q \in Requests : q < r => req[q].pc # "idle"

\* --------------------------------------------------------- pure functions
Max(a, b) == IF a >= b THEN a ELSE b
Min(a, b) == IF a <= b THEN a ELSE b

\* math.ceil(seconds / 60) for a whole number of seconds of either sign
CeilMinutes(seconds) == -((-seconds) \div 60)

\* a stop that rounds the elapsed minutes down
StopMinutesFloor(started_at, ended_at) == Max(0, (ended_at - started_at) \div 60)

\* views.py:115-116  minutes = max(0, math.ceil(seconds / 60))
StopMinutes(started_at, ended_at) == Max(0, CeilMinutes(ended_at - started_at))

\* a guard that tests the minutes column instead of ended_at
AlreadyStoppedByMinutes(s) == s.minutes # 0

\* views.py:108  `if s.ended_at:`
AlreadyStopped(s) == s.ended_at # NULL

\* ----------------------------------------------------------------- actions
\* POST /sessions/ : perform_create stamps the user, started_at is
\* auto_now_add, ended_at and minutes are read-only and take their defaults.
CreateSession(u, tp, tk, now) ==
    /\ Len(sessions) < NumSessions
    /\ tp = NULL \/ tp \in DOMAIN topics
    /\ tk = NULL \/ tk \in DOMAIN tasks
    /\ sessions' = Append(sessions, Session(u, tp, tk, now))
    /\ UNCHANGED <<topics, tasks, req, out>>

\* PATCH /sessions/{id}/stop/ : s = self.get_object()
StopLoad(r, u, sid) ==
    /\ NextSlot(r)
    /\ sid \in 1..Len(sessions)
    /\ IF sessions[sid].user = u
       THEN req' = [req EXCEPT ![r] = [@ EXCEPT !.pc = "loaded", !.op = "stop",
                        !.user = u, !.sid = sid, !.s = sessions[sid]]]
       ELSE req' = [req EXCEPT ![r] = [@ EXCEPT !.pc = "done", !.op = "stop",
                        !.user = u, !.sid = sid, !.status = 404,
                        !.code = "NOT_FOUND"]]
    /\ UNCHANGED <<topics, tasks, sessions, out>>

\* the early return of stop: 400 ALREADY_STOPPED, nothing is written
StopReject(r) ==
    /\ req[r].pc = "loaded" /\ req[r].op = "stop"
    /\ AlreadyStopped(req[r].s)
    /\ req' = [req EXCEPT ![r] = [@ EXCEPT !.pc = "done", !.s = NoSession,
                                    !.status = 400, !.code = "ALREADY_STOPPED"]]
    /\ UNCHANGED <<topics, tasks, sessions, out>>

\* the row this request holds names a topic or a task that was deleted after
\* the row was read
DanglingRef(s) ==
    \/ s.topic # NULL /\ s.topic \notin DOMAIN topics
    \/ s.task # NULL /\ s.task \notin DOMAIN tasks

\* s.save() of a row with a dangling foreign key: the database rejects the
\* UPDATE, nothing is written and the request ends in a server error
StopFail(r) ==
    /\ req[r].pc = "loaded" /\ req[r].op = "stop"
    /\ ~AlreadyStopped(req[r].s)
    /\ DanglingRef(req[r].s)
    /\ req' = [req EXCEPT ![r] = [@ EXCEPT !.pc = "done", !.s = NoSession,
                                    !.status = 500, !.code = "INTEGRITY_ERROR"]]
    /\ UNCHANGED <<topics, tasks, sessions, out>>

\* the rest of stop: ended_at = now, minutes computed, s.save() writes the
\* whole row as this request holds it
StopSave(r, now) ==
    /\ req[r].pc = "loaded" /\ req[r].op = "stop"
    /\ ~AlreadyStopped(req[r].s)
    /\ ~DanglingRef(req[r].s)
    /\ LET s == [req[r].s EXCEPT !.ended_at = now,
                                 !.minutes = StopMinutes(req[r].s.started_at, now)]
       IN /\ sessions' = [sessions EXCEPT ![req[r].sid] = s]
          /\ req' = [req EXCEPT ![r] = [@ EXCEPT !.pc = "done", !.s = NoSession,
                                  !.now = now, !.status = 200, !.code = "OK"]]
    /\ UNCHANGED <<topics, tasks, out>>

\* PATCH /sessions/{id}/ (ModelViewSet.partial_update): instance = get_object()
UpdateLoad(r, u, sid) ==
    /\ NextSlot(r)
    /\ sid \in 1..Len(sessions)
    /\ IF sessions[sid].user = u
       THEN req' = [req EXCEPT ![r] = [@ EXCEPT !.pc = "loaded", !.op = "update",
                        !.user = u, !.sid = sid, !.s = sessions[sid]]]
       ELSE req' = [req EXCEPT ![r] = [@ EXCEPT !.pc = "done", !.op = "update",
                        !.user = u, !.sid = sid, !.status = 404,
                        !.code = "NOT_FOUND"]]
    /\ UNCHANGED <<topics, tasks, sessions, out>>

\* SessionSerializer: user, minutes, started_at, ended_at are read-only, so
\* the client's data reaches only topic, task and notes
UpdatedSession(s, tp, tk, notes) ==
    [s EXCEPT !.topic = tp, !.task = tk, !.notes = notes]

\* serializer.save(): the writable fields are set on the loaded instance and
\* instance.save() writes the whole row
UpdateSave(r, tp, tk, notes) ==
    /\ req[r].pc = "loaded" /\ req[r].op = "update"
    /\ tp = NULL \/ tp \in DOMAIN topics
    /\ tk = NULL \/ tk \in DOMAIN tasks
    /\ LET s == UpdatedSession(req[r].s, tp, tk, notes)
       IN /\ sessions' = [sessions EXCEPT ![req[r].sid] = s]
          /\ req' = [req EXCEPT ![r] = [@ EXCEPT !.pc = "done", !.s = NoSession,
                                  !.status = 200, !.code = "OK"]]
    /\ UNCHANGED <<topics, tasks, out>>

\* a cascade that removes the sessions of a deleted topic or task
DeleteRefs(S, deadTopics, deadTasks) ==
    SelectSeq(S, LAMBDA s : s.topic \notin deadTopics /\ s.task \notin deadTasks)

\* models.Session: topic and task are on_delete=SET_NULL
ClearRefs(S, deadTopics, deadTasks) ==
    [i \in 1..Len(S) |->
        [S[i] EXCEPT !.topic = IF S[i].topic \in deadTopics THEN NULL ELSE @,
                     !.task = IF S[i].task \in deadTasks THEN NULL ELSE @]]

Restrict(f, D) == [x \in D |-> f[x]]

\* DELETE /topics/{id}/ : Task.topic is on_delete=CASCADE
DeleteTopic(u, tp) ==
    /\ tp \in DOMAIN topics
    /\ topics[tp].user = u
    /\ LET deadTasks == {k \in DOMAIN tasks : tasks[k].topic_id = tp}
       IN /\ topics' = Restrict(topics, DOMAIN topics \ {tp})
          /\ tasks' = Restrict(tasks, DOMAIN tasks \ deadTasks)
          /\ sessions' = ClearRefs(sessions, {tp}, deadTasks)
    /\ UNCHANGED <<req, out>>

\* DELETE /tasks/{id}/
DeleteTask(u, tk) ==
    /\ tk \in DOMAIN tasks
    /\ tasks[tk].user = u
    /\ tasks' = Restrict(tasks, DOMAIN tasks \ {tk})
    /\ sessions' = ClearRefs(sessions, {}, {tk})
    /\ UNCHANGED <<topics, req, out>>

Init ==
    /\ topics = (1 :> [user |-> "A", struggle_level |-> 0])
    /\ tasks = (1 :> [user |-> "A", topic_id |-> 1, priority |-> 2,
                      due_date |-> NULL, status |-> "TODO"])
    /\ sessions = <<>>
    /\ req = [r \in Requests |-> IdleRequest]
    /\ out = NoOut

Next ==
    \/ \E u \in Users, tp \in {NULL, 1}, tk \in {NULL, 1}, now \in Instants :
          CreateSession(u, tp, tk, now)
    \/ \E r \in Requests, u \in Users, sid \in 1..NumSessions : StopLoad(r, u, sid)
    \/ \E r \in Requests : StopReject(r)
    \/ \E r \in Requests, now \in Instants : StopSave(r, now)
    \/ \E r \in Requests : StopFail(r)
    \/ \E r \in Requests, u \in Users, sid \in 1..NumSessions : UpdateLoad(r, u, sid)
    \/ \E r \in Requests, tp \in {NULL, 1}, tk \in {NULL, 1}, notes \in {0, 1} :
          UpdateSave(r, tp, tk, notes)
    \/ \E u \in Users, tp \in {1} : DeleteTopic(u, tp)
    \/ \E u \in Users, tk \in {1} : DeleteTask(u, tk)

Spec == Init /\ [][Next]_vars


\* --------------------------------------------------------------- analytics
SecondsPerDay == 86400

\* the calendar date of an instant (the __date lookup)
Date(instant) == instant \div SecondsPerDay

\* a window that buckets a session under the date it ended
EndedDay(s) == Date(s.ended_at)

\* started_at__date
StartedDay(s) == Date(s.started_at)

RECURSIVE SumOver(_, _)
\* Sum("minutes") over the rows of S with index in I
SumOver(S, I) ==
    IF I = {} THEN 0
    ELSE LET i == CHOOSE x \in I : TRUE
         IN S[i].minutes + SumOver(S, I \ {i})

\* analytics.py:29  Session.objects.filter(user=user,
\*     started_at__date__gte=since, ended_at__isnull=False)
WindowQs(S, user, since) ==
    {i \in 1..Len(S) : /\ S[i].user = user
                       /\ StartedDay(S[i]) >= since
                       /\ S[i].ended_at # NULL}

\* analytics.py:26-40
window_minutes(S, user, window_days, today) ==
    LET since == today - (window_days - 1)
        qs == WindowQs(S, user, since)
        total == SumOver(S, qs)
        days == [d \in 1..window_days |-> since + (d - 1)]
        groups == {StartedDay(S[i]) : i \in qs}
        m(g) == SumOver(S, {i \in qs : StartedDay(S[i]) = g})
        minutes_by_day(d) == IF d \in groups THEN m(d) ELSE 0
    IN [total |-> total,
        recent_activity |-> [d \in 1..window_days |->
                                [date |-> days[d], minutes |-> minutes_by_day(days[d])]]]

\* analytics.py:58  Session.objects.filter(user=user, started_at__date=day,
\*     ended_at__isnull=False).exists()
HasSession(S, user, day) ==
    \E i \in 1..Len(S) : /\ S[i].user = user
                         /\ StartedDay(S[i]) = day
                         /\ S[i].ended_at # NULL

\* a grace that is granted at any gap, not only at today
GraceAnywhere(S, user, today, delta) == HasSession(S, user, today - delta - 1)

\* analytics.py:63  delta == 0 and <yesterday has a finished session>
Grace(S, user, today, delta) == delta = 0 /\ HasSession(S, user, today - 1)

RECURSIVE StreakLoop(_, _, _, _, _)
\* analytics.py:56-68, one turn of the while loop per call
StreakLoop(S, user, today, streak, delta) ==
    LET day == today - delta
        has == HasSession(S, user, day)
    IN IF ~has
       THEN IF Grace(S, user, today, delta)
            THEN StreakLoop(S, user, today, streak, delta + 1)
            ELSE streak
       ELSE StreakLoop(S, user, today, streak + 1, delta + 1)

\* analytics.py:42-69
study_streak(S, user, today) == StreakLoop(S, user, today, 0, 0)

\* --------------------------------------- the window/streak specification
\* The store holds up to NumRows sessions, each started late on one of the
\* dates 0 .. MaxDay and either still running, stopped the same day, or
\* stopped after midnight; date.today() reports any of the dates 0 .. MaxDay.
LateStart == SecondsPerDay - 30
Durations == {NULL, 20, 90}
Days == 0..MaxDay

StoredSession(u, tp, day, dur) ==
    LET started_at == day * SecondsPerDay + LateStart
    IN IF dur = NULL THEN Session(u, tp, NULL, started_at)
       ELSE [Session(u, tp, NULL, started_at) EXCEPT
                !.ended_at = started_at + dur,
                !.minutes = StopMinutes(started_at, started_at + dur)]

\* rows are enumerated up to the order of their ids
RowRank(s) ==
    ((s.started_at * 2 + (IF s.user = "A" THEN 0 ELSE 1)) * 4 + s.minutes) * 4
        + (s.topic + 1)

RowsInOrder(S) == \A i \in 1..Len(S) : \A j \in 1..Len(S) :
                      i < j => RowRank(S[i]) <= RowRank(S[j])

WindowRows == {StoredSession(u, NULL, day, dur) :
                  u \in Users, day \in Days, dur \in Durations}

InitWindow ==
    /\ topics = <<>>
    /\ tasks = <<>>
    /\ sessions \in UNION {[1..n -> WindowRows] : n \in 0..NumRows}
    /\ RowsInOrder(sessions)
    /\ req = [r \in Requests |-> IdleRequest]
    /\ out = NoOut

\* GET /me/summary/ : window_minutes(request.user, window_days)
WindowMinutes(user, window_days, today) ==
    /\ LET w == window_minutes(sessions, user, window_days, today)
       IN out' = [NoOut EXCEPT !.fn = "window_minutes", !.user = user,
                     !.today = today, !.window_days = window_days,
                     !.total = w.total, !.recent_activity = w.recent_activity]
    /\ UNCHANGED <<topics, tasks, sessions, req>>

\* GET /me/summary/ : study_streak(request.user)
StudyStreak(user, today) ==
    /\ out' = [NoOut EXCEPT !.fn = "study_streak", !.user = user,
                  !.today = today, !.streak = study_streak(sessions, user, today)]
    /\ UNCHANGED <<topics, tasks, sessions, req>>

\* One analytics call is applied to each store.  The stores hold every
\* combination of rows of both users, so the caller is A and B is the other
\* owner.
NextWindow ==
    \/ \E w \in 1..MaxWindow, today \in Days :
          out = NoOut /\ WindowMinutes("A", w, today)
    \/ \E today \in Days : out = NoOut /\ StudyStreak("A", today)

SpecWindow == InitWindow /\ [][NextWindow]_vars

\* ------------------------------------------------------------- blueprint
RecentDays == 7
DateMax == 2932896      \* date.max, 9999-12-31, in days since the epoch

\* analytics.py:119-126  the topics with a finished session of the user
\* started on or after recent_since = today - 7
TopicRecent(S, user, today) ==
    LET recent_since == today - RecentDays
    IN {S[i].topic : i \in {j \in 1..Len(S) : /\ S[j].user = user
                                              /\ S[j].ended_at # NULL
                                              /\ StartedDay(S[j]) >= recent_since
                                              /\ S[j].topic # NULL}}

\* analytics.py:129-133  the user's TODO and DOING tasks, in row order
RECURSIVE OpenRows(_, _, _)
OpenRows(T, user, k) ==
    IF k > Len(T) THEN <<>>
    ELSE IF T[k].user = user /\ T[k].status \in {"TODO", "DOING"}
         THEN <<k>> \o OpenRows(T, user, k + 1)
         ELSE OpenRows(T, user, k + 1)

\* a lookup of the topic by id alone
StruggleAnyOwner(Tp, user, topic_id) ==
    IF topic_id \in DOMAIN Tp THEN Tp[topic_id].struggle_level ELSE 0

\* analytics.py:141-145  Topic.objects.get(id=topic_id, user=user)
Struggle(Tp, user, topic_id) ==
    IF topic_id \in DOMAIN Tp /\ Tp[topic_id].user = user
    THEN Tp[topic_id].struggle_level
    ELSE 0

\* analytics.py:151-155  urgency, in millionths, times the weight 0.10
Urgency6(due_date, today) ==
    IF due_date # NULL
    THEN LET m == Max(1, due_date - today) IN (200000 + m) \div (2 * m)
    ELSE 0

\* analytics.py:137-157  one row of `out`; score is in millionths, as
\* float(f"{score:.6f}") keeps six decimals; recency is the local of line 148
ScoredRow(Tp, T, S, user, today, k) ==
    LET r == T[k]
        priority == IF r.priority # 0 THEN r.priority ELSE 2
        struggle == Struggle(Tp, user, r.topic_id)
        recency == IF r.topic_id \in TopicRecent(S, user, today) THEN 0 ELSE 1
    IN [id |-> k, priority |-> r.priority, due_date |-> r.due_date,
        status |-> r.status, topic_id |-> r.topic_id, recency |-> recency,
        score |-> 450000 * priority + 300000 * struggle + 150000 * recency
                    + Urgency6(r.due_date, today)]

\* analytics.py:161  the sort key
SortKey(x, topic_recent) ==
    <<-x.score,
      IF x.due_date # NULL THEN x.due_date ELSE DateMax,
      -x.priority,
      IF x.topic_id \in topic_recent THEN 1 ELSE 0>>

\* tuple comparison a < b
RECURSIVE TupleLess(_, _, _)
TupleLess(a, b, i) ==
    IF i > Len(a) THEN FALSE
    ELSE IF a[i] # b[i] THEN a[i] < b[i]
    ELSE TupleLess(a, b, i + 1)

\* list.sort is stable: x goes before the first element with a greater key
RECURSIVE InsertByKey(_, _, _)
InsertByKey(sorted, x, topic_recent) ==
    IF sorted = <<>> THEN <<x>>
    ELSE IF TupleLess(SortKey(x, topic_recent), SortKey(Head(sorted), topic_recent), 1)
         THEN <<x>> \o sorted
         ELSE <<Head(sorted)>> \o InsertByKey(Tail(sorted), x, topic_recent)

RECURSIVE SortByKey(_, _, _)
SortByKey(rows, n, topic_recent) ==
    IF n = 0 THEN <<>>
    ELSE InsertByKey(SortByKey(rows, n - 1, topic_recent), rows[n], topic_recent)

\* analytics.py:135-157  `out` before the sort
Scored(Tp, T, S, user, today) ==
    LET rows == OpenRows(T, user, 1)
    IN [i \in 1..Len(rows) |-> ScoredRow(Tp, T, S, user, today, rows[i])]

\* analytics.py:94-162
blueprint(Tp, T, S, user, limit, today) ==
    LET scored == Scored(Tp, T, S, user, today)
        sorted == SortByKey(scored, Len(scored), TopicRecent(S, user, today))
    IN SubSeq(sorted, 1, Min(limit, Len(sorted)))

\* ------------------------------------------- the blueprint specification
\* Two topics of user A, up to NumTasks tasks on them, and either no session
\* or two finished sessions of A: one on topic 1 started on date 0 and one on
\* topic 2 started on date 4.  date.today() reports date 7 or 8, so that the
\* sessions started 7 and 3, or 8 and 4, days before today.
Todays == {RecentDays, RecentDays + 1}

TaskRow(u, st, tp, p, d) ==
    [user |-> u, topic_id |-> tp, priority |-> p, due_date |-> d, status |-> st]

\* A's open tasks in every shape; A's DONE tasks and B's tasks in the shapes
\* that would rank first (highest priority, earliest due date)
TaskRows ==
    {TaskRow("A", st, tp, p, d) :
        st \in {"TODO", "DOING"}, tp \in {1, 2}, p \in {1, 2},
        d \in {NULL, RecentDays + 1, RecentDays + 2}}
    \cup {TaskRow(o[1], o[2], tp, 2, RecentDays + 1) :
             o \in {<<"A", "DONE">>, <<"B", "TODO">>}, tp \in {1, 2}}

StudyRows == {<<>>,
              <<StoredSession("A", 1, 0, 20), StoredSession("A", 2, 4, 20)>>}

InitBlueprint ==
    /\ \E s1 \in 0..MaxStruggle :
          topics = <<[user |-> "A", struggle_level |-> s1],
                     [user |-> "A", struggle_level |-> 0]>>
    /\ tasks \in UNION {[1..n -> TaskRows] : n \in 0..NumTasks}
    /\ sessions \in StudyRows
    /\ req = [r \in Requests |-> IdleRequest]
    /\ out = NoOut

\* GET /me/blueprint/ : blueprint(request.user, limit)
Blueprint(user, limit, today) ==
    /\ out' = [NoOut EXCEPT !.fn = "blueprint", !.user = user, !.today = today,
                  !.limit = limit,
                  !.scored = Scored(topics, tasks, sessions, user, today),
                  !.ranked = blueprint(topics, tasks, sessions, user, limit, today)]
    /\ UNCHANGED <<topics, tasks, sessions, req>>

NextBlueprint ==
    \E u \in Users, limit \in 1..MaxLimit, today \in Todays :
        out = NoOut /\ Blueprint(u, limit, today)

SpecBlueprint == InitBlueprint /\ [][NextBlueprint]_vars

\* ----------------------------------------------- the score specification
\* One open task of A of any priority 0 .. MaxPriority (the column is a
\* PositiveSmallIntegerField and the serializer adds no range check), on a
\* topic of A or on the topic of B, undated or due from the day before date 7
\* to MaxDue days after it; today is date 7 or 8.
ScoreDues == {NULL} \cup ((RecentDays - 1)..(RecentDays + MaxDue))

ScoreRows ==
    {TaskRow("A", "TODO", tp, p, d) :
        tp \in {1, 2, 3}, p \in 0..MaxPriority, d \in ScoreDues}

InitScore ==
    /\ \E s1 \in 0..MaxStruggle :
          topics = <<[user |-> "A", struggle_level |-> s1],
                     [user |-> "A", struggle_level |-> 0],
                     [user |-> "B", struggle_level |-> MaxStruggle + 1]>>
    /\ tasks \in [1..1 -> ScoreRows]
    /\ sessions \in StudyRows
    /\ req = [r \in Requests |-> IdleRequest]
    /\ out = NoOut

NextScore ==
    \E limit \in 1..MaxLimit, today \in Todays :
        out = NoOut /\ Blueprint("A", limit, today)

SpecScore == InitScore /\ [][NextScore]_vars

\* ------------------------------------------------------------- due soon
OpenStatuses == {"TODO", "DOING"}

\* analytics.py:88-89  the filter and the exclude
DueSoonIds(T, user) ==
    {k \in DOMAIN T : /\ T[k].user = user
                      /\ T[k].status \in OpenStatuses
                      /\ T[k].due_date # NULL}

DueKeyAscending(a, b) ==
    \/ a.due_date < b.due_date
    \/ a.due_date = b.due_date /\ a.priority <= b.priority

\* analytics.py:90  order_by("due_date", "-priority"): a may stand before b
DueKey(a, b) ==
    \/ a.due_date < b.due_date
    \/ a.due_date = b.due_date /\ a.priority >= b.priority

\* The orders in which the database may return the filtered rows: rows equal
\* in due_date and priority come in an order the query does not determine.
DueSoonOrders(T, user) ==
    LET ids == DueSoonIds(T, user)
    IN {o \in [1..Cardinality(ids) -> ids] :
           /\ \A i, j \in DOMAIN o : i # j => o[i] # o[j]
           /\ \A i, j \in DOMAIN o : i < j => DueKey(T[o[i]], T[o[j]])}

\* analytics.py:90-91  [:limit].values("id", "due_date", "priority", "topic_id")
due_soon_tasks(T, o, limit) ==
    [i \in 1..Min(limit, Len(o)) |->
        [id |-> o[i], due_date |-> T[o[i]].due_date,
         priority |-> T[o[i]].priority, topic_id |-> T[o[i]].topic_id]]

\* -------------------------------------------- the due-soon specification
\* Up to NumTasks tasks on one topic: A's tasks in every status, priority
\* 1 .. MaxPriority and undated or due on date 8 or 9, and a task of B that
\* would come first.
DueRows ==
    {TaskRow("A", st, 1, p, d) :
        st \in OpenStatuses \cup {"DONE"}, p \in 1..MaxPriority,
        d \in {NULL, RecentDays + 1, RecentDays + 2}}
    \cup {TaskRow("B", "TODO", 1, MaxPriority, RecentDays + 1)}

InitDueSoon ==
    /\ topics = <<[user |-> "A", struggle_level |-> 0]>>
    /\ tasks \in UNION {[1..n -> DueRows] : n \in 0..NumTasks}
    /\ sessions = <<>>
    /\ req = [r \in Requests |-> IdleRequest]
    /\ out = NoOut

\* due_soon_tasks(user, limit); GET /me/summary/ passes limit=5
DueSoon(user, limit) ==
    /\ \E o \in DueSoonOrders(tasks, user) :
          out' = [NoOut EXCEPT !.fn = "due_soon", !.user = user, !.limit = limit,
                     !.due_soon = due_soon_tasks(tasks, o, limit)]
    /\ UNCHANGED <<topics, tasks, sessions, req>>

NextDueSoon ==
    \E u \in Users, limit \in 1..MaxLimit : out = NoOut /\ DueSoon(u, limit)

SpecDueSoon == InitDueSoon /\ [][NextDueSoon]_vars

\* -------------------------------------------- the deletion specification
\* A topic of A with a task of A on it and a topic of B; NumHistory sessions
\* of either user, each on one of the topics and with or without the task,
\* started on date 0 or 1, still running or stopped after midnight.  Either
\* user deletes their topics and tasks in any order.
HistoryRows ==
    {[StoredSession(u, tp, day, dur) EXCEPT !.task = tk] :
        u \in Users, tp \in {1, 2}, tk \in {NULL, 1}, day \in {0, 1},
        dur \in {NULL, 90}}

\* rows are enumerated up to the order of their ids
HistoryInOrder(S) ==
    \A i \in 1..Len(S) : \A j \in 1..Len(S) :
        i < j => RowRank(S[i]) * 2 + (S[i].task + 1)
                    <= RowRank(S[j]) * 2 + (S[j].task + 1)

InitDelete ==
    /\ topics = <<[user |-> "A", struggle_level |-> 0],
                  [user |-> "B", struggle_level |-> 0]>>
    /\ tasks = <<TaskRow("A", "TODO", 1, 2, NULL)>>
    /\ sessions \in [1..NumHistory -> HistoryRows]
    /\ HistoryInOrder(sessions)
    /\ req = [r \in Requests |-> IdleRequest]
    /\ out = NoOut

NextDelete ==
    \/ \E u \in Users, tp \in {1, 2} : DeleteTopic(u, tp)
    \/ \E u \in Users, tk \in {1} : DeleteTask(u, tk)

SpecDelete == InitDelete /\ [][NextDelete]_vars

\* ------------------------------------------- the shared-store specification
\* A store that A and B share: topic 1 of A and topic 2 of B, both with a
\* struggle_level above 0; NumShared tasks, each an open task of A or of B on
\* either topic (the serializers accept any owner's topic); one session of
\* either user on either topic, started on date 0 or 7, running or finished.
\* Either user stops the session, or A asks for one of the analytics.
SharedTaskRows ==
    {TaskRow("A", "TODO", tp, 2, d) : tp \in {1, 2}, d \in {NULL, RecentDays + 1}}
    \cup {TaskRow("B", "TODO", tp, 2, RecentDays + 1) : tp \in {1, 2}}

SharedSessionRows ==
    {StoredSession(u, tp, day, dur) :
        u \in Users, tp \in {1, 2}, day \in {0, RecentDays},
        dur \in {NULL, ClockStep}}

InitShared ==
    /\ topics = <<[user |-> "A", struggle_level |-> MaxStruggle],
                  [user |-> "B", struggle_level |-> MaxStruggle]>>
    /\ tasks \in [1..NumShared -> SharedTaskRows]
    /\ sessions \in [1..1 -> SharedSessionRows]
    /\ req = [r \in Requests |-> IdleRequest]
    /\ out = NoOut

\* the analytics read the store as it was set up
NoStop == out = NoOut /\ req[1].pc = "idle"

NextShared ==
    \/ \E u \in Users : out = NoOut /\ StopLoad(1, u, 1)
    \/ out = NoOut /\ StopReject(1)
    \/ out = NoOut /\ StopSave(1, req[1].s.started_at + ClockStep)
    \/ \E window_days \in 1..MaxWindow, today \in Todays :
          NoStop /\ WindowMinutes("A", window_days, today)
    \/ \E today \in Todays : NoStop /\ StudyStreak("A", today)
    \/ \E limit \in 1..MaxLimit : NoStop /\ DueSoon("A", limit)
    \/ \E limit \in 1..MaxLimit, today \in Todays :
          NoStop /\ Blueprint("A", limit, today)

SpecShared == InitShared /\ [][NextShared]_vars

\* ------------------------------------------------- the timer specification
\* One session, stopped by a client that issues its requests one at a time,
\* under a clock that reports every second of 0 .. MaxSeconds in any order.
NoneInFlight == \A q \in Requests : req[q].pc # "loaded"

NextTimer ==
    \/ \E now \in TimerInstants :
          sessions = <<>> /\ CreateSession("A", NULL, NULL, now)
    \/ \E r \in Requests : NoneInFlight /\ StopLoad(r, "A", 1)
    \/ \E r \in Requests : StopReject(r)
    \/ \E r \in Requests, now \in TimerInstants : StopSave(r, now)

SpecTimer == Init /\ [][NextTimer]_vars

\* -------------------------------------------------- the stop specification
\* One session of either user and the stop requests on it, which interleave
\* freely, under the clock of the API specification.
NextStop ==
    \/ \E u \in Users, tp \in {NULL, 1}, tk \in {NULL, 1}, now \in Instants :
          sessions = <<>> /\ CreateSession(u, tp, tk, now)
    \/ \E r \in Requests, u \in Users : StopLoad(r, u, 1)
    \/ \E r \in Requests : StopReject(r)
    \/ \E r \in Requests, now \in Instants : StopSave(r, now)

SpecStop == Init /\ [][NextStop]_vars

\* ------------------------------------------------------------------ claims
SessionIds == 1..Len(sessions)

StopsSucceeded(sid) ==
    {r \in Requests : /\ req[r].op = "stop" /\ req[r].sid = sid
                      /\ req[r].pc = "done" /\ req[r].status = 200}

\* C1: of the stop attempts on one session, however they interleave, at most
\* one succeeds (answers 200 and persists ended_at and minutes); the others
\* observe ALREADY_STOPPED.
C1_AtMostOneStopSucceeds ==
    \A sid \in SessionIds : Cardinality(StopsSucceeded(sid)) <= 1

\* C2: a stop request that finds ended_at set on the session it loaded
\* answers 400 ALREADY_STOPPED and leaves the Session table as it was.
C2_StoppedSessionRejectsStop ==
    [][\A r \in Requests :
          (/\ req[r].pc = "loaded" /\ req[r].op = "stop"
           /\ req[r].s.ended_at # NULL
           /\ req'[r] # req[r])
          => /\ req'[r].pc = "done"
             /\ req'[r].status = 400
             /\ req'[r].code = "ALREADY_STOPPED"
             /\ sessions' = sessions]_vars

C2_Witness ==
    \E r \in Requests :
        /\ req[r].op = "stop" /\ req[r].pc = "done" /\ req[r].status = 400
        /\ sessions[req[r].sid].ended_at # NULL

\* C3: a successful stop at instant now stores ended_at = now and
\* minutes = max(0, ceil(elapsed / 60)) for elapsed = now - started_at in
\* seconds: the least whole number of minutes covering a positive elapsed
\* time (90 s -> 2, 60 s -> 1, 1..59 s -> 1) and 0 for elapsed <= 0.
C3_StopComputesMinutes ==
    [][\A r \in Requests :
          (/\ req[r].pc = "loaded" /\ req[r].op = "stop"
           /\ req'[r].pc = "done" /\ req'[r].status = 200)
          => LET old == sessions[req[r].sid]
                 new == sessions'[req[r].sid]
                 elapsed == req'[r].now - old.started_at
                 m == new.minutes
             IN /\ old.ended_at = NULL
                /\ new.ended_at = req'[r].now
                /\ m >= 0
                /\ elapsed <= 0 => m = 0
                /\ elapsed > 0 => 60 * (m - 1) < elapsed /\ elapsed <= 60 * m
                /\ elapsed = 90 => m = 2
                /\ elapsed = 60 => m = 1
                /\ elapsed \in 1..59 => m = 1]_vars

C3_Witness ==
    \E sid \in SessionIds :
        /\ StopsSucceeded(sid) # {}
        /\ sessions[sid].ended_at - sessions[sid].started_at = 90
        /\ sessions[sid].minutes = 2

\* C4: once ended_at is set on a session it is never cleared or changed, and
\* minutes never changes afterwards.
C4_StoppedIsTerminal ==
    [][\A sid \in SessionIds :
          sessions[sid].ended_at # NULL
          => /\ sessions'[sid].ended_at = sessions[sid].ended_at
             /\ sessions'[sid].minutes = sessions[sid].minutes]_vars

\* C5: every session with both instants set has started_at <= ended_at.
C5_StartedBeforeEnded ==
    \A sid \in SessionIds :
        sessions[sid].ended_at # NULL
        => sessions[sid].started_at <= sessions[sid].ended_at


\* the owner's Stopped sessions whose started_at falls on date d
StoppedOn(user, d) ==
    {i \in SessionIds : /\ sessions[i].user = user
                        /\ sessions[i].ended_at # NULL
                        /\ Date(sessions[i].started_at) = d}

MinutesOn(user, d) == SumOver(sessions, StoppedOn(user, d))

\* C6: total_minutes is the sum of minutes over exactly the owner's Stopped
\* sessions started on a date d with today-(window_days-1) <= d <= today.
C6_TotalIsWindowSum ==
    out.fn = "window_minutes"
    => out.total = SumOver(sessions,
                       UNION {StoppedOn(out.user, d) :
                                 d \in (out.today - (out.window_days - 1))..out.today})

\* C7: recent_activity has window_days entries, entry k dated
\* today-(window_days-k), each carrying the sum of minutes of the owner's
\* Stopped sessions started on that date (0 when there is none).
C7_RecentActivityPerDay ==
    out.fn = "window_minutes"
    => /\ Len(out.recent_activity) = out.window_days
       /\ \A k \in 1..out.window_days :
             /\ out.recent_activity[k].date = out.today - (out.window_days - k)
             /\ out.recent_activity[k].minutes =
                    MinutesOn(out.user, out.recent_activity[k].date)

C7_Witness ==
    /\ out.fn = "window_minutes"
    /\ out.window_days >= 2
    /\ \E k \in 1..Len(out.recent_activity) : out.recent_activity[k].minutes = 0
    /\ \E i \in SessionIds :
          /\ sessions[i].user = out.user
          /\ sessions[i].ended_at # NULL
          /\ Date(sessions[i].started_at) = out.today - 1
          /\ Date(sessions[i].ended_at) = out.today
          /\ out.recent_activity[out.window_days - 1].minutes >= sessions[i].minutes
          /\ sessions[i].minutes > 0

Active(user, d) == StoppedOn(user, d) # {}

\* the length of the maximal run of active days ending at d
RunEnding(user, d) ==
    Cardinality({n \in 1..(MaxDay + 2) : \A k \in 0..(n - 1) : Active(user, d - k)})

ActiveDays(user) == {d \in (-1)..(MaxDay + 1) : Active(user, d)}

\* C8: the streak is the run of active days ending today when today is
\* active, the run ending yesterday when only yesterday is, and 0 otherwise;
\* only Stopped sessions make a day active.
C8_StreakIsRun ==
    out.fn = "study_streak"
    => LET u == out.user
           D == out.today
       IN /\ out.streak = IF Active(u, D) THEN RunEnding(u, D)
                          ELSE IF Active(u, D - 1) THEN RunEnding(u, D - 1)
                          ELSE 0
          /\ ActiveDays(u) = {D - 2, D - 1, D} => out.streak = 3
          /\ ActiveDays(u) = {D - 2, D - 1} => out.streak = 2
          /\ ActiveDays(u) = {D - 3} => out.streak = 0

C8_Witness ==
    /\ out.fn = "study_streak"
    /\ out.streak = 2
    /\ ActiveDays(out.user) = {out.today - 2, out.today - 1}
    /\ \E i \in SessionIds : /\ sessions[i].user = out.user
                             /\ sessions[i].ended_at = NULL
                             /\ Date(sessions[i].started_at) = out.today


\* the topic has a Stopped session of the owner started on one of the
\* 7 dates today-6 .. today
StudiedInLast7Days(user, topic_id, today) ==
    \E i \in SessionIds :
        /\ sessions[i].user = user
        /\ sessions[i].topic = topic_id
        /\ sessions[i].ended_at # NULL
        /\ Date(sessions[i].started_at) \in (today - 6)..today

Entries(seq) == {seq[i] : i \in 1..Len(seq)}

\* C9: a task's recency_component is 0 exactly when its topic has a Stopped
\* session of the owner started within today-6 .. today, and 1 otherwise.
C9_RecencyIsLast7Days ==
    out.fn = "blueprint"
    => \A e \in Entries(out.scored) :
          e.recency = IF StudiedInLast7Days(out.user, e.topic_id, out.today)
                      THEN 0 ELSE 1

\* entry a may stand before entry b: higher score, then earlier due_date
\* (undated last), then higher priority, then not recently studied first
MayPrecede(a, b, user, today) ==
    LET dated(x) == x.due_date # NULL
        recent(x) == IF StudiedInLast7Days(user, x.topic_id, today) THEN 1 ELSE 0
    IN \/ a.score > b.score
       \/ /\ a.score = b.score
          /\ \/ dated(a) /\ ~dated(b)
             \/ dated(a) /\ dated(b) /\ a.due_date < b.due_date
             \/ /\ a.due_date = b.due_date
                /\ \/ a.priority > b.priority
                   \/ a.priority = b.priority /\ recent(a) <= recent(b)

OpenTasks(user) ==
    {k \in 1..Len(tasks) : tasks[k].user = user /\ tasks[k].status \in {"TODO", "DOING"}}

\* C10: the result is the first `limit` of the owner's TODO and DOING tasks
\* in ranking order: each open task at most once, no other task, min(limit,
\* number of open tasks) entries, every entry in order before the entries
\* that follow it and before every open task left out.
C10_RankedFirstLimit ==
    out.fn = "blueprint"
    => LET R == out.ranked
           ids == {R[i].id : i \in 1..Len(R)}
       IN /\ Len(R) <= out.limit
          /\ Len(R) = Min(out.limit, Cardinality(OpenTasks(out.user)))
          /\ OpenTasks(out.user) = {} => R = <<>>
          /\ ids \subseteq OpenTasks(out.user)
          /\ Cardinality(ids) = Len(R)
          /\ \A i \in 1..Len(R) : R[i].status # "DONE" /\ R[i] \in Entries(out.scored)
          /\ \A i \in 1..Len(R) : \A j \in 1..Len(R) :
                i < j => MayPrecede(R[i], R[j], out.user, out.today)
          /\ \A i \in 1..Len(R) : \A e \in Entries(out.scored) :
                e.id \notin ids => MayPrecede(R[i], e, out.user, out.today)


\* C11: score = 0.45*priority + 0.30*struggle + 0.15*recency + 0.10*urgency
\* (kept to six decimals), with the stored priority, the struggle_level of
\* the task's topic when the owner has it and 0 otherwise, and urgency 0 for
\* an undated task and 1/max(1, due_date - today) for a dated one, which is
\* exactly 1 for a task overdue, due today or due tomorrow.
C11_ScoreFormula ==
    out.fn = "blueprint"
    => \A e \in Entries(out.scored) :
          LET t == tasks[e.id]
              struggle == IF t.topic_id \in DOMAIN topics
                             /\ topics[t.topic_id].user = out.user
                          THEN topics[t.topic_id].struggle_level ELSE 0
              base == 450000 * t.priority + 300000 * struggle + 150000 * e.recency
              days == t.due_date - out.today
              m == IF days >= 1 THEN days ELSE 1
          IN /\ t.due_date = NULL => e.score = base
             /\ t.due_date # NULL =>
                   /\ m >= 1
                   /\ 2 * (m * (e.score - base) - 100000) <= m
                   /\ 2 * (100000 - m * (e.score - base)) <= m
                   /\ days <= 1 => e.score = base + 100000


\* C12: due_soon(owner, limit) returns at most limit records, each a task of
\* the owner that is TODO or DOING and dated, in ascending due_date order and
\* by descending priority within one due_date; no open dated task that was
\* left out sorts before one that was returned.
C12_DueSoonOrdered ==
    out.fn = "due_soon"
    => LET res == out.due_soon
           included == {res[i].id : i \in DOMAIN res}
           omitted == {k \in DOMAIN tasks :
                          /\ k \notin included
                          /\ tasks[k].user = out.user
                          /\ tasks[k].status \in {"TODO", "DOING"}
                          /\ tasks[k].due_date # NULL}
       IN /\ Len(res) <= out.limit
          /\ \A i \in DOMAIN res :
                /\ res[i].id \in DOMAIN tasks
                /\ tasks[res[i].id].user = out.user
                /\ tasks[res[i].id].status \in {"TODO", "DOING"}
                /\ tasks[res[i].id].due_date # NULL
                /\ res[i].due_date = tasks[res[i].id].due_date
                /\ res[i].priority = tasks[res[i].id].priority
          /\ \A i, j \in DOMAIN res : i # j => res[i].id # res[j].id
          /\ \A i, j \in DOMAIN res :
                i < j => \/ res[i].due_date < res[j].due_date
                         \/ /\ res[i].due_date = res[j].due_date
                            /\ res[i].priority >= res[j].priority
          /\ \A k \in omitted, i \in DOMAIN res :
                ~ \/ tasks[k].due_date < res[i].due_date
                  \/ /\ tasks[k].due_date = res[i].due_date
                     /\ tasks[k].priority > res[i].priority

\* two of the owner's open tasks due the same day with priorities 1 and 3,
\* stored in that order, are both returned
C12_Witness ==
    /\ out.fn = "due_soon" /\ Len(out.due_soon) = 2 /\ Len(tasks) = 2
    /\ tasks[1].priority = 1 /\ tasks[2].priority = 3
    /\ tasks[1].due_date = tasks[2].due_date
    /\ out.due_soon[1].id = 2 /\ out.due_soon[2].id = 1


\* C13: deleting a Topic or a Task clears the references to it on the
\* Sessions but removes no Session and changes no owner, started_at, ended_at,
\* minutes or notes; window_minutes (total and every daily entry) and
\* study_streak of every user are the same right before and right after it.
Deleted == topics' # topics \/ tasks' # tasks

C13_DeletionKeepsHistory ==
    [][Deleted =>
        /\ Len(sessions') = Len(sessions)
        /\ \A i \in 1..Len(sessions) :
              /\ sessions'[i].user = sessions[i].user
              /\ sessions'[i].started_at = sessions[i].started_at
              /\ sessions'[i].ended_at = sessions[i].ended_at
              /\ sessions'[i].minutes = sessions[i].minutes
              /\ sessions'[i].notes = sessions[i].notes
              /\ sessions'[i].topic =
                    IF sessions[i].topic \in DOMAIN topics'
                    THEN sessions[i].topic ELSE NULL
              /\ sessions'[i].task =
                    IF sessions[i].task \in DOMAIN tasks'
                    THEN sessions[i].task ELSE NULL
        /\ \A u \in Users, today \in 0..2 :
              /\ study_streak(sessions', u, today) = study_streak(sessions, u, today)
              /\ \A window_days \in 1..MaxWindow :
                    window_minutes(sessions', u, window_days, today)
                       = window_minutes(sessions, u, window_days, today)
    ]_vars

\* every stored session starts on a topic, so a session without one has had
\* its topic deleted: topic 1 is gone and a finished session of A that was on
\* it still counts its minutes
C13_Witness ==
    /\ 1 \notin DOMAIN topics
    /\ \E i \in 1..Len(sessions) :
          /\ sessions[i].user = "A" /\ sessions[i].topic = NULL
          /\ sessions[i].ended_at # NULL /\ sessions[i].minutes > 0
          /\ window_minutes(sessions, "A", 1, StartedDay(sessions[i])).total > 0
          /\ study_streak(sessions, "A", StartedDay(sessions[i])) > 0


\* C14: two stores that agree on A's Topics, Tasks and Sessions and differ
\* in the records of other owners give A the same window_minutes,
\* study_streak, due_soon and blueprint (scores, struggle and recency
\* included); and a stop request never changes a Session that its user does
\* not own.
Agree(R1, R2, user) ==
    \A i \in 1..Max(Len(R1), Len(R2)) :
        LET own1 == i <= Len(R1) /\ R1[i].user = user
            own2 == i <= Len(R2) /\ R2[i].user = user
        IN (own1 \/ own2) => (own1 /\ own2 /\ R1[i] = R2[i])

\* the stores that keep the user's records, id by id, and keep, replace by
\* the record `other`, drop or add records of other owners
OtherStores(R, user, other) ==
    {V \in UNION {[1..n -> {other} \cup {R[i] : i \in 1..Len(R)}] :
                     n \in 0..(Len(R) + 1)} : Agree(R, V, user)}

\* a topic of B with another struggle_level; an open task of B that is due
\* first; a finished session of B on topic 2 started on date 7
OtherTopics ==
    OtherStores(topics, out.user, [user |-> "B", struggle_level |-> MaxStruggle + 1])

OtherTasks == OtherStores(tasks, out.user, TaskRow("B", "DOING", 2, 3, RecentDays))

OtherSessions ==
    OtherStores(sessions, out.user, StoredSession("B", 2, RecentDays, 2 * ClockStep))

DueSoonResults(T, user, limit) ==
    {due_soon_tasks(T, o, limit) : o \in DueSoonOrders(T, user)}

SameAnalytics ==
    /\ out.fn = "window_minutes"
       => \A S2 \in OtherSessions :
             window_minutes(S2, out.user, out.window_days, out.today)
                = [total |-> out.total, recent_activity |-> out.recent_activity]
    /\ out.fn = "study_streak"
       => \A S2 \in OtherSessions :
             study_streak(S2, out.user, out.today) = out.streak
    /\ out.fn = "due_soon"
       => \A T2 \in OtherTasks :
             /\ out.due_soon \in DueSoonResults(T2, out.user, out.limit)
             /\ DueSoonResults(T2, out.user, out.limit)
                   = DueSoonResults(tasks, out.user, out.limit)
    /\ out.fn = "blueprint"
       => \A Tp2 \in OtherTopics, T2 \in OtherTasks, S2 \in OtherSessions :
             /\ Scored(Tp2, T2, S2, out.user, out.today) = out.scored
             /\ blueprint(Tp2, T2, S2, out.user, out.limit, out.today) = out.ranked

StopTouchesOwnSession ==
    \A i \in 1..Len(sessions) :
        sessions'[i] # sessions[i]
        => \E r \in Requests : /\ req[r].op = "stop" /\ req[r].pc = "loaded"
                               /\ req[r].sid = i
                               /\ req[r].user = sessions[i].user
                               /\ req'[r].status = 200

C14_OwnerIsolation == []SameAnalytics /\ [][StopTouchesOwnSession]_vars

\* the blueprint of A ranks a task of A that stands on the topic of B, whose
\* struggle_level is above 0, and B alone studied the first task's topic today
C14_Witness ==
    /\ out.fn = "blueprint" /\ out.user = "A"
    /\ \E i \in 1..Len(out.ranked) :
          LET tp == out.ranked[i].topic_id
          IN /\ topics[tp].user = "B" /\ topics[tp].struggle_level > 0
             /\ tasks[out.ranked[i].id].user = "A"
    /\ sessions[1].user = "B" /\ sessions[1].ended_at # NULL
    /\ sessions[1].topic = out.ranked[1].topic_id
    /\ StartedDay(sessions[1]) = out.today
    /\ out.ranked[1].recency = 1


\* C15: a successful stop changes only ended_at and minutes of the session it
\* targets: the session's started_at, topic, task, notes and owner and every
\* other record keep the values stored right before the write, also when
\* another request changed them after stop read the session.
StopSucceeds(r) ==
    /\ req[r].op = "stop" /\ req[r].pc = "loaded"
    /\ req'[r].pc = "done" /\ req'[r].status = 200

C15_StopWritesOnlyEndedAndMinutes ==
    [][\A r \in Requests :
          StopSucceeds(r)
          => /\ topics' = topics
             /\ tasks' = tasks
             /\ sessions' = [sessions EXCEPT ![req[r].sid] =
                                [@ EXCEPT !.ended_at = sessions'[req[r].sid].ended_at,
                                          !.minutes = sessions'[req[r].sid].minutes]]
    ]_vars

====
